---- MODULE Spec2Model ----
(***************************************************************************)
(* The location-improvement heuristic of ev_station_solver: the class      *)
(* Solver (solving/solver.py) and the model-building methods it shares     *)
(* with SolverAbstract (solving/solver_abstract.py).                       *)
(*                                                                         *)
(* Conventions.                                                            *)
(*  - Demand points and candidate locations lie on the line y = 0 at       *)
(*    integer abscissae, so the Euclidean distance |x1 - x2| is exact.     *)
(*  - Python index k (0-based) is k + 1 here: sequences are 1-based.       *)
(*  - The service level is a percentage; an objective value is the         *)
(*    program's value multiplied by the number of samples, which keeps     *)
(*    365 / n_samples integral.                                            *)
(*  - The MILP kept by docplex is the list of its named constraints        *)
(*    (m_cts), each with the terms of its left-hand sum, and the four      *)
(*    cost expressions.  The oracle (Model.solve) is external: it answers  *)
(*    with a status and an assignment that satisfies every constraint of   *)
(*    m_cts.                                                               *)
(*  - solver.py reads a few attributes under names the class never sets    *)
(*    (samples_range, n_samples, n_vehicles_samples, ...); each is read    *)
(*    here as the value it names.  Solver has no method                    *)
(*    update_allocation_constraints (called at solver.py:281); the         *)
(*    at-most-one constraints of Solver are those of its                   *)
(*    add_allocation_constraints.                                          *)
(***************************************************************************)
EXTENDS Integers, Sequences, FiniteSets, TLC

\* ------------------------------------------------------------ bounds
\* Cap on the number of candidate locations of a run.
MaxCl == 2
\* Cap on the number of candidates seeded before solve is called.
MaxInitialCl == 1
\* Cap on the number of samples.
MaxSamples == 2

\* ------------------------------------------------------------ inputs
\* Abscissae a location can take.
Pos == 0 .. 2
\* vehicle_locations (constructor argument): demand points at 0 and 2.
vehicle_locations == <<0, 2>>
n_vehicles == Len(vehicle_locations)
\* Operating ranges a sample can draw for a vehicle.
Ranges == {0, 2}
\* service_level values (percent) the constructor accepts, see __init__.
ServiceLevels == {50, 100}
\* fixed_station_number: None (0 here) or a required number of locations.
None == 0
FixedStationNumbers == {None, 1}

\* ------------------------------------------------------------ program constants
station_ub == 1
queue_size == 1
build_cost_param == 2
maintenance_cost_param == 1
drive_cost_param == 1
charge_cost_param == 1
drive_charge_cost_param == charge_cost_param + drive_cost_param
\* 365 days: annualisation factor of set_objective.
DaysPerYear == 365
\* 250: full range of a vehicle in get_fixed_charge_cost.
FullRange == 250
\* epsilon_stable of solve, in objective units times n_samples (0.1 rounds to 0).
epsilon_stable == 0
min_distance == 1
counting_radius == 1
\* mu_charging = MuNum / MuDen
MuNum == 1
MuDen == 2

\* ------------------------------------------------------------ arithmetic helpers
Abs(x) == IF x < 0 THEN -x ELSE x

\* get_distance_matrix entry: Euclidean distance of two points of the line.
Distance(p, q) == Abs(p - q)

Range1(n) == 1 .. n

RECURSIVE SumSeq(_)
SumSeq(seq) == IF seq = <<>> THEN 0 ELSE Head(seq) + SumSeq(Tail(seq))

Min(a, b) == IF a < b THEN a ELSE b

\* Number of positions of a sequence satisfying membership in a set.
CountIn(terms, set) == Cardinality({p \in DOMAIN terms : terms[p] \in set})

\* ------------------------------------------------------------ state
VARIABLES
    \* the arguments of the constructor call (the shape of vehicle_locations and
    \* the service level) and how far the construction got: "no" attribute
    \* set, "partial" (vehicle_locations and n_vehicles set), "yes" (finished)
    args, constructed,
    \* constructor arguments kept as attributes
    service_level, fixed_station_number,
    \* whether a streamlit callback was given, and what each of its calls saw:
    \* the number of recorded solutions and the iteration count
    streamlit_callback, observed,
    \* the locals of allocation_problem
    alloc,
    \* candidate locations
    coordinates_potential_cl, n_potential_cl,
    \* samples: each [ranges, distance_matrix, reachable], matrices indexed [i][k]
    S,
    \* decision variables: v, w hold the name index of each variable; u[s][i][k]
    \* is TRUE for a variable and FALSE for the structural 0
    v, w, u,
    \* the docplex model: named constraints, cost expressions, objective, KPI,
    \* parameters, pushed MIP start and the incumbent's objective
    m_cts, build_cost, maintenance_cost, drive_charge_cost, fixed_charge_cost,
    m_objective, kpi_total, m_timelimit, m_mip_start, m_incumbent,
    \* per-iteration records
    solutions, objective_values,
    \* locals of solve
    pc, iterations, sol, status, b_start_defined, start_arrays, result, error

vars == <<args, constructed, streamlit_callback, observed, alloc,
          service_level, fixed_station_number, coordinates_potential_cl,
          n_potential_cl, S, v, w, u, m_cts, build_cost, maintenance_cost,
          drive_charge_cost, fixed_charge_cost, m_objective, kpi_total,
          m_timelimit, m_mip_start, m_incumbent, solutions, objective_values,
          pc, iterations, sol, status, b_start_defined,
          start_arrays, result, error>>

configVars == <<args, constructed, service_level, fixed_station_number,
                streamlit_callback>>
locationVars == <<coordinates_potential_cl, n_potential_cl>>
dvVars == <<v, w, u>>
modelVars == <<m_cts, build_cost, maintenance_cost, drive_charge_cost,
               fixed_charge_cost, m_objective, kpi_total>>
recordVars == <<solutions, objective_values, observed>>

\* The value of a name that is not bound (Python None / unbound local).
Unbound == <<>>
\* objective_values starts as [np.inf].
Infinity == 1000000

J == Range1(n_potential_cl)
n_samples == Len(S)
samples_range == Range1(n_samples)
I == Range1(n_vehicles)

\* ------------------------------------------------------------ Sample
\* Sample(index, total_vehicle_locations, coordinates_cl): the drawn ranges,
\* the distance matrix to the candidates present at creation and
\* reachable = (distance <= range).
create_sample(ranges, coordinates_cl) ==
    LET dm == [i \in I |-> [k \in DOMAIN coordinates_cl |->
                   Distance(vehicle_locations[i], coordinates_cl[k])]]
    IN [ranges |-> ranges,
        distance_matrix |-> dm,
        reachable |-> [i \in I |-> [k \in DOMAIN coordinates_cl |->
                          dm[i][k] <= ranges[i]]]]

\* Number of columns of a sample's matrices.
Columns(s) == Len(s.reachable[1])

\* ------------------------------------------------------------ construction
Init ==
    /\ service_level \in ServiceLevels
    /\ fixed_station_number \in FixedStationNumbers
    /\ args = [shape |-> <<n_vehicles, 2>>, service_level |-> service_level]
    /\ constructed = "yes"
    /\ coordinates_potential_cl = <<>>
    /\ n_potential_cl = 0
    /\ S = <<>>
    /\ v = <<>> /\ w = <<>> /\ u = <<>>
    /\ m_cts = <<>>
    /\ build_cost = <<>> /\ maintenance_cost = <<>>
    /\ drive_charge_cost = <<>> /\ fixed_charge_cost = <<>>
    /\ m_objective = Unbound /\ kpi_total = Unbound
    /\ m_timelimit = FALSE
    /\ m_mip_start = Unbound
    /\ m_incumbent = Infinity
    /\ solutions = <<>>
    /\ streamlit_callback \in BOOLEAN
    /\ observed = <<>>
    /\ alloc = <<>>
    /\ objective_values = <<Infinity>>
    /\ pc = "setup"
    /\ iterations = 0
    /\ sol = Unbound
    /\ status = "none"
    /\ b_start_defined = FALSE
    /\ start_arrays = Unbound
    /\ result = Unbound
    /\ error = "none"

\* The constructor calls tried: vehicle_locations of shape (rows,) or
\* (rows, cols) and a service level in percent.
ArgShapes == {<<r>> : r \in 0 .. 2} \cup {<<r, c>> : r \in 0 .. 3, c \in 1 .. 3}
ArgServiceLevels == {0 - 50, 0, 1, 50, 100, 101, 150}

\* A call of the constructor is about to run: nothing of the object exists.
BeforeConstruction ==
    /\ args \in [shape : ArgShapes, service_level : ArgServiceLevels]
    /\ constructed = "no"
    /\ service_level = Unbound
    /\ fixed_station_number \in FixedStationNumbers
    /\ coordinates_potential_cl = <<>>
    /\ n_potential_cl = 0
    /\ S = <<>>
    /\ v = <<>> /\ w = <<>> /\ u = <<>>
    /\ m_cts = <<>>
    /\ build_cost = <<>> /\ maintenance_cost = <<>>
    /\ drive_charge_cost = <<>> /\ fixed_charge_cost = <<>>
    /\ m_objective = Unbound /\ kpi_total = Unbound
    /\ m_timelimit = FALSE
    /\ m_mip_start = Unbound
    /\ m_incumbent = Infinity
    /\ solutions = <<>>
    /\ streamlit_callback \in BOOLEAN
    /\ observed = <<>>
    /\ alloc = <<>>
    /\ objective_values = <<>>
    /\ pc = "new"
    /\ iterations = 0
    /\ sol = Unbound
    /\ status = "none"
    /\ b_start_defined = FALSE
    /\ start_arrays = Unbound
    /\ result = Unbound
    /\ error = "none"

\* __init__, lines 62-135: the sanity checks on vehicle_locations.shape and
\* service_level, then the attributes.  shape[1] of a one-dimensional array
\* is an IndexError; np.min of an array without rows (line 78) is a
\* ValueError of numpy, raised after vehicle_locations and n_vehicles are set.
Solver_init ==
    /\ pc = "new"
    /\ UNCHANGED <<args, fixed_station_number, streamlit_callback, observed,
                   alloc,
                   locationVars, S, dvVars,
                   modelVars, m_timelimit, m_mip_start, m_incumbent, solutions,
                   iterations, sol, status, b_start_defined, start_arrays,
                   result>>
    /\ IF args.shape[1] = 1
       THEN /\ pc' = "raised"
            /\ error' = "ValueError: Please add more than one vehicle location."
            /\ UNCHANGED <<constructed, service_level, objective_values>>
       ELSE IF Len(args.shape) < 2
       THEN /\ pc' = "raised"
            /\ error' = "IndexError: tuple index out of range"
            /\ UNCHANGED <<constructed, service_level, objective_values>>
       ELSE IF args.shape[2] # 2
       THEN /\ pc' = "raised"
            /\ error' = "ValueError: Please add two dimensional vehicle locations."
            /\ UNCHANGED <<constructed, service_level, objective_values>>
       ELSE IF args.service_level <= 0 \/ args.service_level > 100
       THEN /\ pc' = "raised"
            /\ error' = "ValueError: Service level should be within (0,1]."
            /\ UNCHANGED <<constructed, service_level, objective_values>>
       ELSE IF args.shape[1] = 0
       THEN /\ pc' = "raised"
            /\ error' = "ValueError: zero-size array to reduction operation minimum"
            /\ constructed' = "partial"
            /\ UNCHANGED <<service_level, objective_values>>
       ELSE /\ pc' = "setup"
            /\ constructed' = "yes"
            /\ service_level' = args.service_level
            /\ objective_values' = <<Infinity>>
            /\ error' = error

\* The constructor alone, over every call tried.
ConstructorSpec == BeforeConstruction /\ [][Solver_init]_vars

\* add_initial_locations(n_stations): the generator's n_stations coordinates
\* are appended to the candidate set.
add_initial_locations(new_locations) ==
    /\ pc = "setup"
    /\ n_potential_cl + Len(new_locations) <= MaxInitialCl
    /\ coordinates_potential_cl' = coordinates_potential_cl \o new_locations
    /\ n_potential_cl' = Len(coordinates_potential_cl')
    /\ UNCHANGED <<configVars, alloc, S, dvVars, modelVars, m_timelimit, m_mip_start,
                   m_incumbent, recordVars, pc, iterations,
                   sol, status, b_start_defined, start_arrays, result, error>>

\* add_samples(num): num samples are created over the current candidates;
\* each gets an empty allocation array of n_vehicles rows.
add_samples(drawn_ranges) ==
    /\ pc = "setup"
    /\ n_samples + Len(drawn_ranges) <= MaxSamples
    /\ S' = S \o [p \in DOMAIN drawn_ranges |->
                    create_sample(drawn_ranges[p], coordinates_potential_cl)]
    /\ u' = u \o [p \in DOMAIN drawn_ranges |-> [i \in I |-> <<>>]]
    /\ UNCHANGED <<configVars, alloc, locationVars, v, w, modelVars, m_timelimit,
                   m_mip_start, m_incumbent, recordVars, pc, iterations, sol,
                   status, b_start_defined, start_arrays, result, error>>

\* ------------------------------------------------------------ decision variables
\* Variant of KRange that numbers the new locations from the start again.
KRange_restarting(a, cnt) == [p \in Range1(cnt) |-> p]

\* range(a, a + cnt) as the sequence of its (1-based) indices.
KRange(a, cnt) == [p \in Range1(cnt) |-> a + p]

\* Variant of add_new_dv_v that appends the new variables twice.
add_new_dv_v_twice(v_, K) == v_ \o K \o K

\* add_new_dv_v: one binary variable v_k per k in K, appended to self.v.
add_new_dv_v(v_, K) == v_ \o K

\* add_new_dv_w: one integer variable w_k per k in K, appended to self.w.
add_new_dv_w(w_, K) == w_ \o K

\* Variant of add_new_dv_u_s that creates a variable in every cell.
add_new_dv_u_s_dense(u_s, s, K) ==
    [i \in I |-> u_s[i] \o [p \in DOMAIN K |-> TRUE]]

\* add_new_dv_u_s: for every vehicle i and k in K a binary variable where
\* reachable[i, k] holds and the constant 0 elsewhere, appended as columns.
add_new_dv_u_s(u_s, s, K) ==
    [i \in I |-> u_s[i] \o [p \in DOMAIN K |-> s.reachable[i][K[p]]]]

\* add_new_decision_variables: v, w and every sample's u.
add_new_decision_variables(dv, samples, K) ==
    [v |-> add_new_dv_v(dv.v, K),
     w |-> add_new_dv_w(dv.w, K),
     u |-> [s \in DOMAIN samples |-> add_new_dv_u_s(dv.u[s], samples[s], K)]]

\* ------------------------------------------------------------ constraints
\* A constraint of the model: its name is <<kind, s, i, k>>, terms are the
\* variables of its left-hand sum (<<i, k>> for u[s][i, k], <<0, k>> for v[k]).
Ct(kind, s, i, k, terms) ==
    [kind |-> kind, s |-> s, i |-> i, k |-> k, terms |-> terms]

\* The reachable cells (i, k), i in I and k in K, in the order of the sum.
RECURSIVE ReachableCells(_, _, _)
ReachableCells(s, is, K) ==
    IF is = <<>> THEN <<>>
    ELSE SelectSeq([p \in DOMAIN K |-> <<Head(is), K[p]>>],
                   LAMBDA c : s.reachable[c[1]][c[2]])
         \o ReachableCells(s, Tail(is), K)

ISeq == [i \in I |-> i]

\* m.get_constraint_by_name: the position of the constraint of that name
\* registered last, 0 when there is none.
get_constraint_by_name(cts, kind, s, i, k) ==
    LET hits == {p \in DOMAIN cts : /\ cts[p].kind = kind /\ cts[p].s = s
                                    /\ cts[p].i = i /\ cts[p].k = k}
    IN IF hits = {} THEN 0 ELSE CHOOSE p \in hits : \A q \in hits : q <= p

\* Variant of update_fixed_station_number_constraint that adds a constraint
\* over the new candidates alone.
update_fixed_station_number_constraint_K_only(cts, v_, K) ==
    Append(cts, Ct("fixed_station_number", 0, 0, 0,
                   [p \in DOMAIN K |-> <<0, v_[K[p]]>>]))

\* update_fixed_station_number_constraint: sum(v) == fixed_station_number is
\* created over all of self.v, or the existing left-hand sum is extended by
\* v[k], k in K.
update_fixed_station_number_constraint(cts, v_, K) ==
    LET c == get_constraint_by_name(cts, "fixed_station_number", 0, 0, 0)
    IN IF c = 0
       THEN Append(cts, Ct("fixed_station_number", 0, 0, 0,
                           [p \in DOMAIN v_ |-> <<0, v_[p]>>]))
       ELSE [cts EXCEPT ![c].terms = @ \o [p \in DOMAIN K |-> <<0, v_[K[p]]>>]]

\* Variant of add_w_lt_mv_constraints that bounds the initial candidates only.
add_w_lt_mv_constraints_initial_only(cts, K) ==
    IF K # <<>> /\ K[1] = 1
    THEN cts \o [p \in DOMAIN K |-> Ct("number_w", 0, 0, K[p], <<>>)]
    ELSE cts

\* add_w_lt_mv_constraints: w[k] <= v[k] * station_ub for k in K.
add_w_lt_mv_constraints(cts, K) ==
    cts \o [p \in DOMAIN K |-> Ct("number_w", 0, 0, K[p], <<>>)]

\* add_v_lt_w_constraints: v[k] <= w[k] for k in K.
add_v_lt_w_constraints(cts, K) ==
    cts \o [p \in DOMAIN K |-> Ct("number_v", 0, 0, K[p], <<>>)]

\* Variant of add_max_queue_constraints that bounds the initial candidates
\* only.
add_max_queue_constraints_initial_only(cts, samples, s, K) ==
    IF K # <<>> /\ K[1] = 1
    THEN cts \o [p \in DOMAIN K |->
                   Ct("allocation_qw", s, 0, K[p],
                      ReachableCells(samples[s], ISeq, <<K[p]>>))]
    ELSE cts

\* add_max_queue_constraints: for k in K,
\* sum(u[s][i, k] for reachable i) <= q * w[k].
add_max_queue_constraints(cts, samples, s, K) ==
    cts \o [p \in DOMAIN K |->
              Ct("allocation_qw", s, 0, K[p],
                 ReachableCells(samples[s], ISeq, <<K[p]>>))]

\* Solver.add_allocation_constraints: for every vehicle i a new constraint
\* sum(u[s][i, k] for reachable k in K) <= 1.
add_allocation_constraints(cts, samples, s, K) ==
    cts \o [i \in I |->
              Ct("charger_allocation", s, i, 0,
                 ReachableCells(samples[s], <<i>>, K))]

\* Solver.update_service_constraint: a new constraint
\* sum(u[s][i, k] for reachable (i, k), k in K) >= service_level * n_vehicles.
update_service_constraint(cts, samples, s, K) ==
    Append(cts, Ct("service_level", s, 0, 0,
                   ReachableCells(samples[s], ISeq, K)))

\* The constraints of one sample, in the order of update_constraints.
update_constraints_sample(cts, samples, s, K) ==
    update_service_constraint(
        add_allocation_constraints(
            add_max_queue_constraints(cts, samples, s, K), samples, s, K),
        samples, s, K)

RECURSIVE update_constraints_samples(_, _, _, _)
update_constraints_samples(cts, samples, s, K) ==
    IF s > Len(samples) THEN cts
    ELSE update_constraints_samples(
             update_constraints_sample(cts, samples, s, K), samples, s + 1, K)

\* Solver.update_constraints.
update_constraints(cts, fixed, v_, samples, K) ==
    LET c1 == IF fixed # None
              THEN update_fixed_station_number_constraint(cts, v_, K) ELSE cts
        c2 == add_w_lt_mv_constraints(c1, K)
        c3 == add_v_lt_w_constraints(c2, K)
    IN update_constraints_samples(c3, samples, 1, K)

\* ------------------------------------------------------------ objective and KPIs
\* get_build_cost / get_maintenance_cost: build_cost_param * sum(v[k]) and
\* maintenance_cost_param * sum(w[k]), k in K, as the list of their variables.
get_build_cost(v_, K) == [p \in DOMAIN K |-> v_[K[p]]]
get_maintenance_cost(w_, K) == [p \in DOMAIN K |-> w_[K[p]]]

\* get_drive_charge_cost(s, K): the reachable cells (s, i, k), k in K; the
\* coefficient of a cell is drive_charge_cost_param * distance_matrix[i, k].
get_drive_charge_cost(samples, s, K) ==
    LET cells == ReachableCells(samples[s], ISeq, K)
    IN [p \in DOMAIN cells |-> <<s, cells[p][1], cells[p][2]>>]

RECURSIVE sum_drive_charge_cost(_, _, _)
sum_drive_charge_cost(samples, s, K) ==
    IF s > Len(samples) THEN <<>>
    ELSE get_drive_charge_cost(samples, s, K)
         \o sum_drive_charge_cost(samples, s + 1, K)

\* get_fixed_charge_cost(s) = charge_cost_param * (250 - ranges).sum()
get_fixed_charge_cost(samples, s) ==
    charge_cost_param
    * SumSeq([i \in I |-> FullRange - samples[s].ranges[i]])

\* Variant of set_objective that adds the fixed charge cost on every call.
set_objective_fixed_again(costs, dv, samples, K) ==
    IF costs.build_cost = Unbound
    THEN [build_cost |-> get_build_cost(dv.v, K),
          maintenance_cost |-> get_maintenance_cost(dv.w, K),
          drive_charge_cost |-> sum_drive_charge_cost(samples, 1, K),
          fixed_charge_cost |-> [s \in DOMAIN samples |-> s]]
    ELSE [build_cost |-> costs.build_cost \o get_build_cost(dv.v, K),
          maintenance_cost |->
              costs.maintenance_cost \o get_maintenance_cost(dv.w, K),
          drive_charge_cost |->
              costs.drive_charge_cost \o sum_drive_charge_cost(samples, 1, K),
          fixed_charge_cost |->
              costs.fixed_charge_cost \o [s \in DOMAIN samples |-> s]]

\* The four cost expressions after set_objective(K): created when build_cost
\* is None, extended by the K terms otherwise; the fixed charge cost is set
\* on creation only.
set_objective(costs, dv, samples, K) ==
    IF costs.build_cost = Unbound
    THEN [build_cost |-> get_build_cost(dv.v, K),
          maintenance_cost |-> get_maintenance_cost(dv.w, K),
          drive_charge_cost |-> sum_drive_charge_cost(samples, 1, K),
          fixed_charge_cost |-> [s \in DOMAIN samples |-> s]]
    ELSE [build_cost |-> costs.build_cost \o get_build_cost(dv.v, K),
          maintenance_cost |->
              costs.maintenance_cost \o get_maintenance_cost(dv.w, K),
          drive_charge_cost |->
              costs.drive_charge_cost \o sum_drive_charge_cost(samples, 1, K),
          fixed_charge_cost |-> costs.fixed_charge_cost]

\* The expression handed to m.minimize and to the total_cost KPI:
\* build_cost + maintenance_cost + 365 / n_samples * drive_charge_cost
\* + 365 / n_samples * fixed_charge_cost.
total_cost_expr(costs) == costs

\* Value of a total cost expression under an assignment val = [v, w, u]
\* (times the number of samples).
ExprValue(expr, val, samples) ==
    Len(samples)
      * ( build_cost_param
            * SumSeq([p \in DOMAIN expr.build_cost |-> val.v[expr.build_cost[p]]])
        + maintenance_cost_param
            * SumSeq([p \in DOMAIN expr.maintenance_cost |->
                         val.w[expr.maintenance_cost[p]]]) )
    + DaysPerYear
      * ( drive_charge_cost_param
            * SumSeq([p \in DOMAIN expr.drive_charge_cost |->
                        LET c == expr.drive_charge_cost[p]
                        IN IF <<c[2], c[3]>> \in val.u[c[1]]
                           THEN samples[c[1]].distance_matrix[c[2]][c[3]]
                           ELSE 0])
        + SumSeq([p \in DOMAIN expr.fixed_charge_cost |->
                    get_fixed_charge_cost(samples, expr.fixed_charge_cost[p])]) )

\* ------------------------------------------------------------ the oracle
\* Whether an assignment satisfies a constraint of the model.
Satisfies(c, val, sl, fixed) ==
    CASE c.kind = "number_w" -> val.w[c.k] <= val.v[c.k] * station_ub
      [] c.kind = "number_v" -> val.v[c.k] <= val.w[c.k]
      [] c.kind = "fixed_station_number" ->
            SumSeq([p \in DOMAIN c.terms |-> val.v[c.terms[p][2]]]) = fixed
      [] c.kind = "allocation_qw" ->
            CountIn(c.terms, val.u[c.s]) <= queue_size * val.w[c.k]
      [] c.kind = "charger_allocation" -> CountIn(c.terms, val.u[c.s]) <= 1
      [] c.kind = "service_level" ->
            100 * CountIn(c.terms, val.u[c.s]) >= sl * n_vehicles

LocationKinds == {"number_w", "number_v", "fixed_station_number"}

\* Largest value tried for an integer variable w_k (docplex gives it no
\* upper bound; only the constraints bound it).
WDomainMax == station_ub + 1

\* The cells of sample s that hold a variable.
VariableCells(u_s) ==
    {c \in I \X (IF Len(u_s) = 0 THEN {} ELSE DOMAIN u_s[1]) : u_s[c[1]][c[2]]}

\* The (v, w) parts that satisfy every constraint over v and w alone.
FeasibleVW(cts, n, sl, fixed) ==
    {vw \in [v : [Range1(n) -> 0 .. 1], w : [Range1(n) -> 0 .. WDomainMax]] :
        \A p \in DOMAIN cts :
            cts[p].kind \in LocationKinds =>
                Satisfies(cts[p], [v |-> vw.v, w |-> vw.w, u |-> <<>>], sl, fixed)}

\* The allocations of sample s that satisfy every constraint of s under vw.
FeasibleU(cts, u_, s, vw, sl, fixed) ==
    {a \in SUBSET VariableCells(u_[s]) :
        \A p \in DOMAIN cts :
            (cts[p].kind \notin LocationKinds /\ cts[p].s = s) =>
                Satisfies(cts[p],
                          [v |-> vw.v, w |-> vw.w, u |-> [t \in DOMAIN u_ |-> a]],
                          sl, fixed)}

RECURSIVE AllocationProduct(_, _, _, _, _, _)
AllocationProduct(cts, u_, s, vw, sl, fixed) ==
    IF s = 0 THEN {<<>>}
    ELSE {Append(f, a) : f \in AllocationProduct(cts, u_, s - 1, vw, sl, fixed),
                         a \in FeasibleU(cts, u_, s, vw, sl, fixed)}

\* Every assignment that satisfies all constraints of the model.
FeasibleAssignments(cts, u_, n, sl, fixed) ==
    UNION {{[v |-> vw.v, w |-> vw.w, u |-> a] :
                a \in AllocationProduct(cts, u_, Len(u_), vw, sl, fixed)} :
           vw \in FeasibleVW(cts, n, sl, fixed)}

\* A solution object: an assignment and its objective value.
Solution(a, expr, samples) ==
    [v |-> a.v, w |-> a.w, u |-> a.u,
     objective_value |-> ExprValue(expr, a, samples)]

\* The solutions of least objective value.
ArgMin(sols) ==
    {a \in sols : \A b \in sols : a.objective_value <= b.objective_value}

\* What m.solve can answer: a status and the solution it returns.  A model
\* without feasible assignment is reported infeasible and no solution is
\* returned.  Otherwise a proven optimum is a minimiser; a solution-limit
\* stop returns a solution better than the incumbent; a time-limit stop (only
\* when a time limit is set) returns the best solution found, no worse than
\* the incumbent.
OracleAnswers(F, expr, samples, incumbent, timelimit) ==
    LET sols == {Solution(a, expr, samples) : a \in F}
    IN IF F = {} THEN {<<"integer infeasible", Unbound>>}
       ELSE ({"integer optimal, tolerance", "integer optimal solution"}
               \X ArgMin(sols))
            \cup ({"solution limit exceeded"}
                    \X {a \in sols : a.objective_value < incumbent})
            \cup (IF timelimit
                  THEN {"time limit exceeded"}
                         \X {a \in sols : a.objective_value <= incumbent}
                  ELSE {})

\* ------------------------------------------------------------ helpers of solve
\* compute_maximum_matching(n, reachable): the largest number of vehicles that
\* can be matched to a reachable location, location k taking at most n[k].
compute_maximum_matching(n, reachable) ==
    LET rows == DOMAIN reachable
        cols == DOMAIN n
        matchings ==
            {f \in [rows -> cols \cup {0}] :
                /\ \A i \in rows : f[i] # 0 => reachable[i][f[i]]
                /\ \A k \in cols : Cardinality({i \in rows : f[i] = k}) <= n[k]}
        sizes == {Cardinality({i \in rows : f[i] # 0}) : f \in matchings}
    IN CHOOSE c \in sizes : \A d \in sizes : d <= c

\* np.repeat(8, n_potential_cl)
MatchingCapacity == 8

\* initialize_model, set_objective(K = J) and set_kpis: the decision
\* variables, constraints and cost expressions of the first model.
InitializedModel ==
    LET K == KRange(0, n_potential_cl)
        dv == add_new_decision_variables([v |-> v, w |-> w, u |-> u], S, K)
        cts == update_constraints(m_cts, fixed_station_number, dv.v, S, K)
        costs == set_objective(
                     [build_cost |-> build_cost,
                      maintenance_cost |-> maintenance_cost,
                      drive_charge_cost |-> drive_charge_cost,
                      fixed_charge_cost |-> fixed_charge_cost], dv, S, K)
    IN [dv |-> dv, cts |-> cts, costs |-> costs]

\* solve, lines 663-668: the maximum service level of every sample, as the
\* number of vehicles that can be served.
max_service_levels ==
    [s \in samples_range |->
        compute_maximum_matching([k \in J |-> MatchingCapacity], S[s].reachable)]

\* Variant of service_level_unreachable that lets every model through.
service_level_unreachable_unchecked == FALSE

\* solve, line 669: min(max_service_levels) < self.service_level.
service_level_unreachable ==
    \E s \in samples_range :
        100 * max_service_levels[s] < service_level * n_vehicles

\* solve, lines 655-688: the sanity check of the fixed number, the
\* maximum-service-level check, then the initial model.
solve_begin ==
    /\ pc = "setup"
    /\ UNCHANGED <<configVars, alloc, locationVars, S, m_timelimit, m_mip_start,
                   m_incumbent, recordVars, iterations, sol, status,
                   b_start_defined, start_arrays, result>>
    /\ IF fixed_station_number # None /\ fixed_station_number > n_potential_cl
       THEN /\ pc' = "raised"
            /\ error' = "ValueError: fixed locations"
            /\ UNCHANGED <<dvVars, modelVars>>
       ELSE IF n_samples = 0
       THEN /\ pc' = "raised"
            /\ error' = "ValueError: min of empty sequence"
            /\ UNCHANGED <<dvVars, modelVars>>
       ELSE IF \E s \in samples_range : Columns(S[s]) # n_potential_cl
       THEN /\ pc' = "raised"
            /\ error' = "IndexError"
            /\ UNCHANGED <<dvVars, modelVars>>
       ELSE IF service_level_unreachable
       THEN /\ pc' = "raised"
            /\ error' = "ValueError: service level"
            /\ UNCHANGED <<dvVars, modelVars>>
       ELSE LET im == InitializedModel
            IN /\ v' = im.dv.v /\ w' = im.dv.w /\ u' = im.dv.u
               /\ m_cts' = im.cts
               /\ build_cost' = im.costs.build_cost
               /\ maintenance_cost' = im.costs.maintenance_cost
               /\ drive_charge_cost' = im.costs.drive_charge_cost
               /\ fixed_charge_cost' = im.costs.fixed_charge_cost
               /\ m_objective' = total_cost_expr(im.costs)
               /\ kpi_total' = total_cost_expr(im.costs)
               /\ pc' = "initial_solve"
               /\ error' = error

\* The answers of the oracle on the current model.
SolveAnswers ==
    OracleAnswers(FeasibleAssignments(m_cts, u, n_potential_cl, service_level,
                                      fixed_station_number),
                  m_objective, S, m_incumbent, m_timelimit)

\* solve, lines 694-698: the check of the status of the initial solve.
initial_branch(st) == IF st = "integer infeasible" THEN "raise" ELSE "proceed"

\* Variant of inner_loop_branch that solves again on an infeasible status.
inner_loop_branch_retry_infeasible(st) ==
    IF st \in {"solution limit exceeded", "integer infeasible"}
    THEN "continue" ELSE "break"

\* Variant of inner_loop_branch that solves again when the time limit is hit.
inner_loop_branch_retry_timelimit(st) ==
    IF st \in {"solution limit exceeded", "time limit exceeded"}
    THEN "continue"
    ELSE IF st = "integer infeasible" THEN "raise" ELSE "break"

\* Variant of inner_loop_branch that aborts when the solution limit is hit.
inner_loop_branch_abort_limit(st) ==
    IF st \in {"solution limit exceeded", "integer infeasible"}
    THEN "raise" ELSE "break"

\* solve, lines 727-757: the branch the inner loop takes on a status.
inner_loop_branch(st) ==
    IF st = "solution limit exceeded" THEN "continue"
    ELSE IF st = "integer infeasible" THEN "raise"
    ELSE IF st = "time limit exceeded" THEN "break"
    ELSE IF st = "integer optimal, tolerance" THEN "break"
    ELSE "break"

\* solve, lines 693-705: the initial solve, the infeasibility check and the
\* time limit for the later solves.
initial_solve ==
    /\ pc = "initial_solve"
    /\ UNCHANGED <<configVars, alloc, locationVars, S, dvVars, modelVars, m_mip_start,
                   recordVars, iterations, b_start_defined, start_arrays,
                   result>>
    /\ \E ans \in SolveAnswers :
          /\ status' = ans[1]
          /\ sol' = ans[2]
          /\ m_incumbent' = IF ans[2] = Unbound THEN m_incumbent
                            ELSE ans[2].objective_value
          /\ IF initial_branch(ans[1]) = "raise"
             THEN /\ pc' = "raised"
                  /\ error' = "ValueError: model is infeasible"
                  /\ UNCHANGED m_timelimit
             ELSE /\ m_timelimit' = TRUE
                  /\ pc' = "outer"
                  /\ error' = error

\* solve, lines 713-757: one pass of the inner loop (entering an outer
\* iteration first when the previous one has ended).  Line 725 reads
\* m.objective_value before the status is looked at; when the solve returned
\* no solution docplex may refuse that read with an exception of its own.
inner_solve ==
    /\ pc \in {"outer", "inner"}
    /\ iterations' = IF pc = "outer" THEN iterations + 1 ELSE iterations
    /\ b_start_defined' = IF pc = "outer" THEN FALSE ELSE b_start_defined
    /\ UNCHANGED <<configVars, alloc, locationVars, S, dvVars, modelVars, m_timelimit,
                   m_mip_start, recordVars, start_arrays, result>>
    /\ \E ans \in SolveAnswers :
          /\ status' = ans[1]
          /\ sol' = ans[2]
          /\ m_incumbent' = IF ans[2] = Unbound THEN m_incumbent
                            ELSE ans[2].objective_value
          /\ \/ /\ ans[2] = Unbound
                /\ pc' = "raised"
                /\ error' = "DOcplexException: model did not solve successfully"
             \/ /\ pc' = CASE inner_loop_branch(ans[1]) = "continue" -> "inner"
                           [] inner_loop_branch(ans[1]) = "raise" -> "raised"
                           [] inner_loop_branch(ans[1]) = "break" -> "extract"
                /\ error' = IF inner_loop_branch(ans[1]) = "raise"
                            THEN "ValueError: model is infeasible" ELSE error

\* extract_solution: the rounded values of v, w and of every sample's u.
extract_solution(s) == [b_sol |-> s.v, n_sol |-> s.w, u_sol |-> s.u]

\* Variant of call_streamlit_callback that never calls.
call_streamlit_callback_never(callback, calls, seen) == calls

\* solve, lines 765-767: the callback, when one was given, is called with
\* the solver as it stands.
call_streamlit_callback(callback, calls, seen) ==
    IF callback THEN Append(calls, seen) ELSE calls

\* solve, lines 759-767: the solved assignment and its objective value are
\* recorded and the callback, when given, is called.
extract ==
    /\ pc = "extract"
    /\ solutions' = Append(solutions, extract_solution(sol))
    /\ objective_values' = Append(objective_values, sol.objective_value)
    /\ observed' = call_streamlit_callback(
                       streamlit_callback, observed,
                       [recorded |-> Len(solutions'), iterations |-> iterations])
    /\ status' = "none"
    /\ pc' = "improve"
    /\ UNCHANGED <<configVars, alloc, locationVars, S, dvVars, modelVars, m_timelimit,
                   m_mip_start, m_incumbent, iterations, sol,
                   b_start_defined, start_arrays, result, error>>

\* get_indice_sets_stations: the built indices, ascending.
built_indices(b_sol) == SelectSeq([j \in DOMAIN b_sol |-> j], LAMBDA j : b_sol[j] = 1)

\* Whether some vehicle of some sample is allocated to location j.
HasAllocation(u_sol, j) ==
    \E s \in DOMAIN u_sol : \E c \in u_sol[s] : c[2] = j

\* find_improved_locations: the built locations with an allocated vehicle
\* (each gets an improved position) and the built but empty ones.
location_indices(built, u_sol) ==
    SelectSeq(built, LAMBDA j : HasAllocation(u_sol, j))
empty_indices(built, u_sol) ==
    SelectSeq(built, LAMBDA j : ~HasAllocation(u_sol, j))

\* filter_locations: the mask of the proposed positions that are built.
\* A position farther than min_distance from every candidate is kept; one
\* that is too close is kept when its uniform draw is below prob.
NumberVehiclesInRadius(x) ==
    Cardinality({i \in I : Distance(x, vehicle_locations[i]) < counting_radius})
NumberLocationsRadius(x, coords) ==
    Cardinality({k \in DOMAIN coords : Distance(x, coords[k]) < counting_radius})
        * 2 * station_ub
MinDistanceTo(x, coords) ==
    CHOOSE d \in {Distance(x, coords[k]) : k \in DOMAIN coords} :
        \A k \in DOMAIN coords : d <= Distance(x, coords[k])
\* prob >= 1: every draw of [0, 1) is below it.
ProbIsOne(x, coords) ==
    \/ NumberLocationsRadius(x, coords) = 0
    \/ NumberVehiclesInRadius(x) * MuNum >= NumberLocationsRadius(x, coords) * MuDen
\* prob = 0: no draw is below it.
ProbIsZero(x, coords) ==
    /\ NumberLocationsRadius(x, coords) # 0
    /\ NumberVehiclesInRadius(x) = 0
\* Variant of build_mask that lets the draw decide about every position that
\* is too close.
build_mask_always_drawn(improved_locations, coords, draw_below_prob) ==
    [p \in DOMAIN improved_locations |->
        \/ MinDistanceTo(improved_locations[p], coords) > min_distance
        \/ draw_below_prob[p]]

build_mask(improved_locations, coords, draw_below_prob) ==
    [p \in DOMAIN improved_locations |->
        \/ MinDistanceTo(improved_locations[p], coords) > min_distance
        \/ /\ ~ProbIsZero(improved_locations[p], coords)
           /\ ProbIsOne(improved_locations[p], coords) \/ draw_below_prob[p]]

\* The masks filter_locations can produce over all outcomes of its draws.
build_masks(improved_locations, coords) ==
    {build_mask(improved_locations, coords, draws) :
        draws \in [DOMAIN improved_locations -> BOOLEAN]}

\* array[mask]
Masked(seq, mask) ==
    LET keep == SelectSeq([p \in DOMAIN seq |-> p], LAMBDA p : mask[p])
    IN [q \in DOMAIN keep |-> seq[keep[q]]]

\* Variant of update_distances_reachable whose new columns hold
\* distance < range.
update_distances_reachable_strict(samples, improved_locations, K) ==
    [s \in DOMAIN samples |->
        LET dm == [i \in I |->
                     samples[s].distance_matrix[i]
                     \o [p \in DOMAIN improved_locations |->
                           Distance(vehicle_locations[i], improved_locations[p])]]
        IN [ranges |-> samples[s].ranges,
            distance_matrix |-> dm,
            reachable |-> [i \in I |->
                samples[s].reachable[i]
                \o [p \in DOMAIN K |-> dm[i][K[p]] < samples[s].ranges[i]]]]]

\* update_distances_reachable: every sample gets the distance columns of the
\* new locations and the reachability columns computed from them.
update_distances_reachable(samples, improved_locations, K) ==
    [s \in DOMAIN samples |->
        LET dm == [i \in I |->
                     samples[s].distance_matrix[i]
                     \o [p \in DOMAIN improved_locations |->
                           Distance(vehicle_locations[i], improved_locations[p])]]
        IN [ranges |-> samples[s].ranges,
            distance_matrix |-> dm,
            reachable |-> [i \in I |->
                samples[s].reachable[i]
                \o [p \in DOMAIN K |-> dm[i][K[p]] <= samples[s].ranges[i]]]]]

\* Position of j in a sequence of indices (0 when absent).
IndexOf(seq, j) ==
    IF \E p \in DOMAIN seq : seq[p] = j
    THEN CHOOSE p \in DOMAIN seq : seq[p] = j ELSE 0

\* Variant of create_start_arrays that leaves the replaced and the empty
\* locations as the solution has them.
create_start_arrays_keeping_old(xs, old_indices, empties, vv, K) ==
    [b_start |-> [j \in Range1(Len(xs.b_sol) + vv) |->
                    IF j > Len(xs.b_sol) THEN 1 ELSE xs.b_sol[j]],
     n_start |-> [j \in Range1(Len(xs.n_sol) + vv) |->
                    IF j > Len(xs.n_sol)
                    THEN xs.n_sol[old_indices[j - Len(xs.n_sol)]]
                    ELSE xs.n_sol[j]],
     u_start |-> [s \in DOMAIN xs.u_sol |->
                    {IF IndexOf(old_indices, c[2]) # 0
                     THEN <<c[1], K[IndexOf(old_indices, c[2])]>> ELSE c :
                        c \in xs.u_sol[s]}]]

\* construct_mip_start, lines 541-570: the start arrays.  The new locations
\* K are built with the count of the old location each replaces, the
\* replaced and the empty locations are zeroed, and every vehicle of a
\* replaced location moves to the new one.
create_start_arrays(xs, old_indices, empties, vv, K) ==
    [b_start |-> [j \in Range1(Len(xs.b_sol) + vv) |->
                    IF j > Len(xs.b_sol) THEN 1
                    ELSE IF IndexOf(old_indices, j) # 0 \/ IndexOf(empties, j) # 0
                         THEN 0 ELSE xs.b_sol[j]],
     n_start |-> [j \in Range1(Len(xs.n_sol) + vv) |->
                    IF j > Len(xs.n_sol)
                    THEN xs.n_sol[old_indices[j - Len(xs.n_sol)]]
                    ELSE IF IndexOf(old_indices, j) # 0 \/ IndexOf(empties, j) # 0
                         THEN 0 ELSE xs.n_sol[j]],
     u_start |-> [s \in DOMAIN xs.u_sol |->
                    {IF IndexOf(old_indices, c[2]) # 0
                     THEN <<c[1], K[IndexOf(old_indices, c[2])]>> ELSE c :
                        c \in xs.u_sol[s]}]]

\* construct_mip_start, lines 572-590: the values put into the MIP start:
\* v and w of the locations with b_start = 1 and n_start # 0, and the u
\* variables (reachable cells) with u_start = 1.
create_mip_solution(arrays, u_) ==
    [v |-> [j \in DOMAIN arrays.b_start |->
              IF arrays.b_start[j] = 1 /\ arrays.n_start[j] # 0 THEN 1 ELSE 0],
     w |-> [j \in DOMAIN arrays.b_start |->
              IF arrays.b_start[j] = 1 /\ arrays.n_start[j] # 0
              THEN arrays.n_start[j] ELSE 0],
     u |-> [s \in DOMAIN arrays.u_start |->
              arrays.u_start[s] \cap VariableCells(u_[s])]]

\* Variant of check_stable that never reports a stable solution.
check_stable_never(obj_values, kpi, warmstart, samples) == FALSE

\* check_stable: |objective_values[-1] - total_cost KPI of the warm start|
\* <= epsilon.
check_stable(obj_values, kpi, warmstart, samples) ==
    Abs(obj_values[Len(obj_values)] - ExprValue(kpi, warmstart, samples))
        <= epsilon_stable

\* solve, lines 769-848: location improvement, the filter, and either the
\* stop on zero accepted locations or the extension of the model, the warm
\* start and the stability check.  improved is the position found for each
\* built location with allocations, mask the outcome of the filter.
improve ==
    LET xs == solutions[Len(solutions)]
        built == built_indices(xs.b_sol)
        old == location_indices(built, xs.u_sol)
        empties == empty_indices(built, xs.u_sol)
    IN
    /\ pc = "improve"
    /\ UNCHANGED <<configVars, alloc, recordVars, m_timelimit,
                   iterations, sol, status, result, error>>
    /\ \E improved \in [DOMAIN old -> Pos] :
       \E mask \in build_masks(improved, coordinates_potential_cl) :
        LET filtered_improved_locations == Masked(improved, mask)
            filtered_old_indices == Masked(old, mask)
            vv == Len(filtered_improved_locations)
            K == KRange(n_potential_cl, vv)
            samples == update_distances_reachable(S, filtered_improved_locations, K)
            dv == add_new_decision_variables([v |-> v, w |-> w, u |-> u], samples, K)
            cts == update_constraints(m_cts, fixed_station_number, dv.v, samples, K)
            costs == set_objective(
                         [build_cost |-> build_cost,
                          maintenance_cost |-> maintenance_cost,
                          drive_charge_cost |-> drive_charge_cost,
                          fixed_charge_cost |-> fixed_charge_cost], dv, samples, K)
            arrays == create_start_arrays(xs, filtered_old_indices, empties, vv, K)
            mip_start == create_mip_solution(arrays, dv.u)
        IN IF vv = 0
           THEN /\ pc' = "finalise"
                /\ UNCHANGED <<locationVars, S, dvVars, modelVars, m_mip_start,
                               m_incumbent, b_start_defined, start_arrays>>
           ELSE /\ n_potential_cl + vv <= MaxCl
                /\ coordinates_potential_cl' =
                      coordinates_potential_cl \o filtered_improved_locations
                /\ S' = samples
                /\ n_potential_cl' = n_potential_cl + vv
                /\ v' = dv.v /\ w' = dv.w /\ u' = dv.u
                /\ m_cts' = cts
                /\ build_cost' = costs.build_cost
                /\ maintenance_cost' = costs.maintenance_cost
                /\ drive_charge_cost' = costs.drive_charge_cost
                /\ fixed_charge_cost' = costs.fixed_charge_cost
                /\ m_objective' = total_cost_expr(costs)
                /\ kpi_total' = total_cost_expr(costs)
                /\ start_arrays' = arrays
                /\ b_start_defined' = TRUE
                /\ m_mip_start' = mip_start
                /\ m_incumbent' = Infinity
                /\ pc' = IF check_stable(objective_values, total_cost_expr(costs),
                                         mip_start, samples)
                         THEN "finalise" ELSE "outer"

\* solve, lines 849-877: the returned values are read from the start arrays
\* of the last warm start; with none built, b_start is an unbound local.
\* locations_built holds, for each built location with an allocated vehicle
\* in u_start, the index whose improved position is returned.
finalise ==
    /\ pc = "finalise"
    /\ UNCHANGED <<configVars, alloc, locationVars, S, dvVars, modelVars, m_timelimit,
                   m_mip_start, m_incumbent, recordVars, iterations, sol,
                   status, b_start_defined, start_arrays>>
    /\ IF start_arrays = Unbound
       THEN /\ pc' = "raised"
            /\ error' = "UnboundLocalError: b_start"
            /\ result' = result
       ELSE LET built == built_indices(start_arrays.b_start)
            IN /\ result' = [v_sol_built |->
                                 [p \in DOMAIN built |-> start_arrays.n_start[built[p]]],
                             locations_built |->
                                 location_indices(built, start_arrays.u_start),
                             iterations |-> iterations]
               /\ pc' = "returned"
               /\ error' = error

\* ------------------------------------------------------------ specification
Seqs(set, n) == UNION {[Range1(m) -> set] : m \in 0 .. n}

Next ==
    \/ \E new_locations \in Seqs(Pos, MaxInitialCl) \ {<<>>} :
          add_initial_locations(new_locations)
    \/ \E drawn_ranges \in Seqs([I -> Ranges], MaxSamples) \ {<<>>} :
          add_samples(drawn_ranges)
    \/ solve_begin
    \/ initial_solve
    \/ inner_solve
    \/ extract
    \/ improve
    \/ finalise

Spec == Init /\ [][Next]_vars

\* ------------------------------------------------------------ allocation_problem
\* Number of draws (n_iter) of the allocation problem.
MaxIter == 2
\* The 2 of "allocated up to 2n" (line 967).
AllocationQueue == 2

\* A service level as a fraction num / den.
Fraction(num, den) == [num |-> num, den |-> den]
FractionGeq(a, b) == a.num * b.den >= b.num * a.den

\* allocation_problem is called on a constructed solver with the built
\* locations and their numbers of chargers.
AllocationInit ==
    /\ service_level \in ServiceLevels
    /\ fixed_station_number = None
    /\ \E locations_built \in Seqs(Pos, MaxCl) :
          args = [locations_built |-> locations_built,
                  v_sol_built |-> [j \in DOMAIN locations_built |-> station_ub],
                  n_iter |-> MaxIter]
    /\ constructed = "yes"
    /\ coordinates_potential_cl = <<>>
    /\ n_potential_cl = 0
    /\ S = <<>>
    /\ v = <<>> /\ w = <<>> /\ u = <<>>
    /\ m_cts = <<>>
    /\ build_cost = <<>> /\ maintenance_cost = <<>>
    /\ drive_charge_cost = <<>> /\ fixed_charge_cost = <<>>
    /\ m_objective = Unbound /\ kpi_total = Unbound
    /\ m_timelimit = FALSE
    /\ m_mip_start = Unbound
    /\ m_incumbent = Infinity
    /\ solutions = <<>>
    /\ streamlit_callback = FALSE
    /\ observed = <<>>
    /\ objective_values = <<Infinity>>
    /\ iterations = 0
    /\ sol = Unbound
    /\ status = "none"
    /\ b_start_defined = FALSE
    /\ start_arrays = Unbound
    /\ result = Unbound
    /\ error = "none"
    \* lines 888-917: the empty lists; the loop is about to start
    /\ alloc = [i |-> 0, ranges |-> <<>>, locations |-> <<>>,
                distances |-> <<>>, reachable |-> <<>>,
                attainable_service_level |-> Unbound,
                service_level |-> Unbound, sol |-> Unbound,
                objective_values |-> <<>>, service_levels |-> <<>>,
                mip_gaps |-> <<>>]
    /\ pc = "allocation"

\* Lines 929-930: boolean indexing by charging, the rows kept in order.
Charging(charging) == SelectSeq([i \in I |-> i], LAMBDA i : charging[i])

\* Lines 931-932: distances and reachability of the charging vehicles to the
\* built locations.
allocation_distances(locations, locations_built) ==
    [i \in DOMAIN locations |->
        [j \in DOMAIN locations_built |-> Distance(locations[i], locations_built[j])]]
allocation_reachable(distances, ranges) ==
    [i \in DOMAIN distances |->
        [j \in DOMAIN distances[i] |-> distances[i][j] <= ranges[i]]]

\* Variant of allocation_service_level that keeps the nominal service level.
allocation_service_level_nominal(nominal, attainable) == nominal

\* Lines 937-939: self.service_level if attainable_service_level >=
\* self.service_level else attainable_service_level.
allocation_service_level(nominal, attainable) ==
    IF FractionGeq(attainable, nominal) THEN nominal ELSE attainable

\* Lines 925-971: one draw of get_sample, restricted to the charging vehicles,
\* the attainable service level and the service level of the constraint.
\* Without charging vehicle the division by l fails.
allocation_sample(ranges, charging) ==
    /\ pc = "allocation"
    /\ alloc.i < args.n_iter
    /\ LET ch == Charging(charging)
           l == Len(ch)
           ranges_ch == [p \in DOMAIN ch |-> ranges[ch[p]]]
           locations == [p \in DOMAIN ch |-> vehicle_locations[ch[p]]]
           distances == allocation_distances(locations, args.locations_built)
           reachable == allocation_reachable(distances, ranges_ch)
       IN IF l = 0
          THEN /\ pc' = "raised"
               /\ error' = "ZeroDivisionError"
               /\ alloc' = [alloc EXCEPT !.ranges = ranges_ch,
                                         !.locations = locations,
                                         !.distances = distances,
                                         !.reachable = reachable]
          ELSE LET attainable ==
                       Fraction(compute_maximum_matching(args.v_sol_built,
                                                         reachable), l)
               IN /\ alloc' = [alloc EXCEPT
                                 !.ranges = ranges_ch,
                                 !.locations = locations,
                                 !.distances = distances,
                                 !.reachable = reachable,
                                 !.attainable_service_level = attainable,
                                 !.service_level =
                                     allocation_service_level(
                                         Fraction(service_level, 100), attainable)]
                  /\ pc' = "allocation_solve"
                  /\ error' = error
    /\ UNCHANGED <<configVars, locationVars, S, dvVars, modelVars, m_timelimit,
                   m_mip_start, m_incumbent, recordVars, iterations, sol,
                   status, b_start_defined, start_arrays, result>>

\* Lines 959-971: the allocations (sets of reachable cells) that satisfy the
\* constraints of the draw.
AllocationFeasible(reachable, v_sol_built, target) ==
    LET rows == DOMAIN reachable
        cols == DOMAIN v_sol_built
        cells == {c \in rows \X cols : reachable[c[1]][c[2]]}
    IN {a \in SUBSET cells :
          /\ \A i \in rows : Cardinality({c \in a : c[1] = i}) <= 1
          /\ \A j \in cols : Cardinality({c \in a : c[2] = j})
                                <= AllocationQueue * v_sol_built[j]
          /\ Cardinality(a) * target.den >= target.num * Len(reachable)}

\* Lines 894-896 and 974-979: the objective of an allocation.
AllocationObjective(a, distances, ranges, v_sol_built) ==
    LET cells == CHOOSE f \in [1 .. Cardinality(a) -> a] :
                     \A p, q \in DOMAIN f : p # q => f[p] # f[q]
    IN DaysPerYear * drive_charge_cost_param
         * SumSeq([p \in DOMAIN cells |-> distances[cells[p][1]][cells[p][2]]])
       + maintenance_cost_param * SumSeq(v_sol_built)
       + build_cost_param * Len(v_sol_built)
       + charge_cost_param * DaysPerYear
           * SumSeq([p \in DOMAIN ranges |-> FullRange - ranges[p]])

\* What m_a.solve can answer under its time limit (line 917): an optimal
\* allocation (gap 0), or the best one found when the time is up.
AllocationAnswers(reachable, distances, ranges, v_sol_built, target) ==
    LET sols == {[u |-> a,
                  objective_value |->
                      AllocationObjective(a, distances, ranges, v_sol_built)] :
                 a \in AllocationFeasible(reachable, v_sol_built, target)}
    IN {[sol |-> s, gap |-> IF s \in ArgMin(sols) THEN 0 ELSE 1] : s \in sols}

\* Lines 973-996: the solve of the draw and the values appended to the lists.
allocation_solve ==
    /\ pc = "allocation_solve"
    /\ \E ans \in AllocationAnswers(alloc.reachable, alloc.distances,
                                    alloc.ranges, args.v_sol_built,
                                    alloc.service_level) :
          alloc' = [alloc EXCEPT
                      !.i = @ + 1,
                      !.sol = ans.sol,
                      !.objective_values = Append(@, ans.sol.objective_value),
                      !.service_levels = Append(@, alloc.service_level),
                      !.mip_gaps = Append(@, ans.gap)]
    /\ pc' = "allocation"
    /\ UNCHANGED <<configVars, locationVars, S, dvVars, modelVars, m_timelimit,
                   m_mip_start, m_incumbent, recordVars, iterations, sol,
                   status, b_start_defined, start_arrays, result, error>>

\* Lines 998-1020: the lists are returned.
allocation_return ==
    /\ pc = "allocation"
    /\ alloc.i = args.n_iter
    /\ result' = [objective_values |-> alloc.objective_values,
                  service_levels |-> alloc.service_levels,
                  mip_gaps |-> alloc.mip_gaps]
    /\ pc' = "allocation_returned"
    /\ UNCHANGED <<configVars, alloc, locationVars, S, dvVars, modelVars,
                   m_timelimit, m_mip_start, m_incumbent, recordVars,
                   iterations, sol, status, b_start_defined, start_arrays,
                   error>>

AllocationNext ==
    \/ \E ranges \in [I -> Ranges], charging \in [I -> BOOLEAN] :
          allocation_sample(ranges, charging)
    \/ allocation_solve
    \/ allocation_return

AllocationSpec == AllocationInit /\ [][AllocationNext]_vars

\* ------------------------------------------------------------ construct_mip_start
\* Number of candidates of the solution a warm start is constructed from.
MaxStartCl == 3

\* The solutions extract_solution can give over n candidates and ns samples:
\* a location is built exactly when it has chargers, a vehicle is allocated
\* to at most one location, and a location takes at most queue_size vehicles
\* per charger.
ExtractedSolutions(n, ns) ==
    LET allocations ==
            {a \in SUBSET (I \X Range1(n)) :
                \A c, d \in a : c[1] = d[1] => c = d}
    IN {xs \in [b_sol : [Range1(n) -> 0 .. 1],
                n_sol : [Range1(n) -> 0 .. station_ub],
                u_sol : [Range1(ns) -> allocations]] :
          \A j \in Range1(n) :
              /\ xs.b_sol[j] <= xs.n_sol[j]
              /\ xs.n_sol[j] <= station_ub * xs.b_sol[j]
              /\ \A s \in Range1(ns) :
                    Cardinality({c \in xs.u_sol[s] : c[2] = j})
                        <= queue_size * xs.n_sol[j]}

\* The subsequences of a sequence (what boolean indexing can keep).
SubSeqs(seq) == {Masked(seq, mask) : mask \in [DOMAIN seq -> BOOLEAN]}

\* construct_mip_start is called as solve calls it (lines 827-835): with the
\* last solution, the old indices the filter kept (at least one), the built
\* but empty locations, and the new indices K.
ConstructMipStartInit ==
    /\ \E n \in Range1(MaxStartCl), ns \in Range1(MaxSamples) :
       \E xs \in ExtractedSolutions(n, ns) :
       \E kept \in SubSeqs(location_indices(built_indices(xs.b_sol), xs.u_sol))
                      \ {<<>>} :
          /\ n_potential_cl = n
          /\ solutions = <<xs>>
          /\ args = [location_indices |-> kept,
                     empty_indices |->
                         empty_indices(built_indices(xs.b_sol), xs.u_sol),
                     v |-> Len(kept),
                     K |-> KRange(n, Len(kept))]
    /\ service_level \in ServiceLevels
    /\ fixed_station_number = None
    /\ constructed = "yes"
    /\ coordinates_potential_cl = <<>>
    /\ S = <<>>
    /\ v = <<>> /\ w = <<>> /\ u = <<>>
    /\ m_cts = <<>>
    /\ build_cost = <<>> /\ maintenance_cost = <<>>
    /\ drive_charge_cost = <<>> /\ fixed_charge_cost = <<>>
    /\ m_objective = Unbound /\ kpi_total = Unbound
    /\ m_timelimit = TRUE
    /\ m_mip_start = Unbound
    /\ m_incumbent = Infinity
    /\ streamlit_callback = FALSE
    /\ observed = <<>>
    /\ alloc = <<>>
    /\ objective_values = <<Infinity>>
    /\ iterations = 1
    /\ sol = Unbound
    /\ status = "none"
    /\ b_start_defined = FALSE
    /\ start_arrays = Unbound
    /\ result = Unbound
    /\ error = "none"
    /\ pc = "construct_mip_start"

\* construct_mip_start, lines 541-570, on the arguments of the call.
construct_mip_start ==
    /\ pc = "construct_mip_start"
    /\ start_arrays' = create_start_arrays(solutions[Len(solutions)],
                                           args.location_indices,
                                           args.empty_indices, args.v, args.K)
    /\ b_start_defined' = TRUE
    /\ pc' = "constructed_mip_start"
    /\ UNCHANGED <<configVars, alloc, locationVars, S, dvVars, modelVars,
                   m_timelimit, m_mip_start, m_incumbent, recordVars,
                   iterations, sol, status, result, error>>

ConstructMipStartSpec == ConstructMipStartInit /\ [][construct_mip_start]_vars

\* ------------------------------------------------------------ properties
\* Number of locations demand point i of sample s is allocated to.
AllocatedTo(u_sol, s, i) == Cardinality({c \in u_sol[s] : c[1] = i})

\* The constraints of a kind registered for sample s.
ConstraintsOf(kind, s) ==
    {p \in DOMAIN m_cts : m_cts[p].kind = kind /\ m_cts[p].s = s}

\* The variables summed on the left of constraint p.
TermSet(p) == {m_cts[p].terms[q] : q \in DOMAIN m_cts[p].terms}

\* C1: in every recorded solution of every outer iteration, every demand
\* point of every sample is allocated to at most one location, counted over
\* the initial and the added candidates together.
C1_AtMostOneAllocation ==
    \A x \in DOMAIN solutions :
        \A s \in DOMAIN solutions[x].u_sol :
            \A i \in I : AllocatedTo(solutions[x].u_sol, s, i) <= 1

\* C2: once the model is built there is, for every sample, exactly one
\* service-level constraint and its left-hand sum holds every allocation
\* variable of the sample, over the old and the added candidates together.
C2_OneJointServiceConstraint ==
    m_cts # <<>> =>
        \A s \in samples_range :
            /\ Cardinality(ConstraintsOf("service_level", s)) = 1
            /\ \A p \in ConstraintsOf("service_level", s) :
                   TermSet(p) = VariableCells(u[s])

\* Number of demand points of sample s allocated to location k.
AllocatedAt(u_sol, s, k) == Cardinality({c \in u_sol[s] : c[2] = k})

\* The candidates of a recorded solution that were added by an extension.
AddedCandidates(x) ==
    {k \in DOMAIN solutions[x].b_sol : k > Len(solutions[1].b_sol)}

\* C3: in every recorded solution and for every candidate k, added ones
\* included, built[k] <= count[k] <= capacity * built[k].
C3_BuiltCountCapacity ==
    \A x \in DOMAIN solutions :
        \A k \in DOMAIN solutions[x].b_sol :
            /\ solutions[x].b_sol[k] <= solutions[x].n_sol[k]
            /\ solutions[x].n_sol[k] <= station_ub * solutions[x].b_sol[k]

\* A recorded solution builds a candidate added by an extension, at capacity.
C3_Witness ==
    \E x \in DOMAIN solutions : \E k \in AddedCandidates(x) :
        /\ solutions[x].b_sol[k] = 1
        /\ solutions[x].n_sol[k] = station_ub

\* C4: in every recorded solution, for every sample s and every candidate k,
\* added ones included, at most queue_size * count[k] demand points of s are
\* allocated to k.
C4_QueueCap ==
    \A x \in DOMAIN solutions :
        \A s \in DOMAIN solutions[x].u_sol :
            \A k \in DOMAIN solutions[x].n_sol :
                AllocatedAt(solutions[x].u_sol, s, k)
                    <= queue_size * solutions[x].n_sol[k]

\* A recorded solution fills the queue of a candidate added by an extension.
C4_Witness ==
    \E x \in DOMAIN solutions : \E k \in AddedCandidates(x) :
        \E s \in DOMAIN solutions[x].u_sol :
            /\ AllocatedAt(solutions[x].u_sol, s, k) > 0
            /\ AllocatedAt(solutions[x].u_sol, s, k)
                   = queue_size * solutions[x].n_sol[k]

\* Number of locations the filter accepted in the improvement step that is
\* being taken: the candidate set grows by exactly the accepted locations.
Accepted == n_potential_cl' - n_potential_cl

\* |objective of the solved assignment - total_cost of the new warm start|
\* <= epsilon, read after the improvement step.
WithinTolerance ==
    Abs(objective_values[Len(objective_values)]
          - ExprValue(kpi_total', m_mip_start', S')) <= epsilon_stable

\* C5: the improvement step of an outer iteration leaves the loop exactly
\* when (a) no location was accepted, and then the model is not extended, or
\* (b) a location was accepted and the cost of the warm start is within
\* epsilon of the solved objective; otherwise another outer iteration starts.
\* Once the loop is left the run ends: it runs no further iteration.
C5_StopRule ==
    [][/\ pc = "improve" =>
            /\ Accepted >= 0
            /\ Accepted = 0 =>
                  /\ pc' = "finalise"
                  /\ UNCHANGED <<locationVars, S, dvVars, modelVars>>
            /\ Accepted > 0 =>
                  /\ WithinTolerance => pc' = "finalise"
                  /\ ~WithinTolerance => pc' = "outer"
       /\ pc = "outer" => iterations' = iterations + 1
       /\ pc = "finalise" => pc' \in {"returned", "raised"}]_vars

\* The first outer iteration accepted a location and was not stable, a
\* second one ran, accepted none and the loop was left.
C5_Witness ==
    /\ pc = "finalise"
    /\ Len(solutions) = 2
    /\ n_potential_cl = Len(solutions[2].b_sol)
    /\ n_potential_cl > Len(solutions[1].b_sol)

\* C6: a run of solve that has recorded a solution ends either with the
\* infeasibility error or by returning its outputs.
C6_EndedRunReturns ==
    (pc = "raised" /\ solutions # <<>>) => status = "integer infeasible"

\* Sample s cannot reach the target service level on the current candidates:
\* fewer vehicles can be served than service_level * n_vehicles.
BelowTarget(s) ==
    100 * compute_maximum_matching([k \in J |-> MatchingCapacity],
                                   S[s].reachable)
        < service_level * n_vehicles

\* The call of solve passes the checks that precede the service-level check.
ReachesServiceLevelCheck ==
    /\ ~(fixed_station_number # None /\ fixed_station_number > n_potential_cl)
    /\ n_samples > 0
    /\ \A s \in samples_range : Columns(S[s]) = n_potential_cl

\* C7: when some sample cannot reach the target service level on the current
\* candidates, solve raises the service-level error with no decision
\* variable, constraint or objective created and no solve issued.
C7_UnreachableServiceLevelRaisesFirst ==
    [][(/\ pc = "setup" /\ pc' # "setup"
        /\ ReachesServiceLevelCheck
        /\ \E s \in samples_range : BelowTarget(s)) =>
           /\ pc' = "raised"
           /\ error' = "ValueError: service level"
           /\ v' = <<>> /\ w' = <<>> /\ m_cts' = <<>>
           /\ m_objective' = Unbound
           /\ sol' = Unbound /\ status' = "none"
           /\ solutions' = <<>>]_vars

\* solve raised the service-level error with a candidate present that no
\* vehicle of any sample reaches.
C7_Witness ==
    /\ pc = "raised" /\ error = "ValueError: service level"
    /\ n_potential_cl > 0
    /\ \A s \in samples_range : \A i \in I : \A k \in J : ~S[s].reachable[i][k]

\* The errors a solve without solution ends the run with.
InfeasibilityErrors ==
    {"ValueError: model is infeasible",
     "DOcplexException: model did not solve successfully"}

\* C8: a solve that reports the infeasible status ends the run with an error
\* in the same step: nothing is recorded, no candidate is added, no warm
\* start is built, and no step follows the error.
C8_InfeasibleIsFatal ==
    [][/\ status' = "integer infeasible" /\ status # "integer infeasible" =>
            /\ pc' = "raised"
            /\ error' \in InfeasibilityErrors
            /\ UNCHANGED <<recordVars, locationVars, S, dvVars, modelVars,
                           m_mip_start, start_arrays>>
       /\ pc = "raised" => FALSE]_vars

\* A solve of the loop, after a recorded iteration, was reported infeasible.
C8_Witness ==
    /\ pc = "raised" /\ status = "integer infeasible"
    /\ solutions # <<>>

\* C9: a solve of the loop that ends with the time limit is followed by the
\* extraction of the assignment it returned and by location improvement; the
\* next solve, if any, is issued on an extended model.
C9_NoRetryOnTimeLimit ==
    [][/\ (pc \in {"outer", "inner"} /\ status' = "time limit exceeded") =>
            /\ pc' = "extract"
            /\ sol' # Unbound
            /\ UNCHANGED <<modelVars, dvVars, recordVars>>
       /\ pc = "extract" =>
            /\ pc' = "improve"
            /\ solutions' = Append(solutions, extract_solution(sol))
            /\ objective_values' = Append(objective_values, sol.objective_value)
            /\ UNCHANGED <<modelVars, dvVars>>
       /\ (pc = "improve" /\ pc' # "improve") =>
            \/ pc' = "finalise"
            \/ pc' = "outer" /\ m_cts' # m_cts /\ v' # v]_vars

\* A solve of the loop ended with the time limit and its assignment awaits
\* extraction.
C9_Witness ==
    pc = "extract" /\ status = "time limit exceeded"

ValidationErrors ==
    {"ValueError: Please add more than one vehicle location.",
     "ValueError: Please add two dimensional vehicle locations.",
     "ValueError: Service level should be within (0,1]."}

\* The call is malformed: fewer than two demand points, coordinates that are
\* not two-dimensional, or a service level outside (0, 1].
Malformed ==
    \/ args.shape[1] < 2
    \/ Len(args.shape) # 2
    \/ Len(args.shape) = 2 /\ args.shape[2] # 2
    \/ args.service_level <= 0 \/ args.service_level > 100

\* C11: a malformed constructor call ends with one of the validation errors
\* and with no attribute of the solver set; every other call is accepted.
C11_MalformedInputRejected ==
    pc # "new" =>
        /\ Malformed => /\ pc = "raised"
                        /\ error \in ValidationErrors
                        /\ constructed = "no"
        /\ ~Malformed => pc = "setup" /\ constructed = "yes"

\* The objective values the oracle can prove optimal for the current model.
OptimalObjectives ==
    {a.objective_value :
        a \in ArgMin({Solution(f, m_objective, S) :
                         f \in FeasibleAssignments(m_cts, u, n_potential_cl,
                                                   service_level,
                                                   fixed_station_number)})}

\* C12: once a warm start has been pushed for the enlarged model, solving
\* that model to optimality gives an objective that is at most the
\* total_cost KPI of the warm start.
C12_WarmStartNeverRegresses ==
    (pc = "outer" /\ m_mip_start # Unbound) =>
        /\ OptimalObjectives # {}
        /\ \A o \in OptimalObjectives :
               o <= ExprValue(kpi_total, m_mip_start, S)

\* seq is an initial part of seq2.
IsPrefix(seq, seq2) ==
    /\ Len(seq) <= Len(seq2)
    /\ \A p \in DOMAIN seq : seq2[p] = seq[p]

C14_ReachabilityOnlyGrows ==
    [][\A s \in samples_range : \A i \in I :
          /\ S'[s].ranges = S[s].ranges
          /\ IsPrefix(S[s].reachable[i], S'[s].reachable[i])
          /\ IsPrefix(S[s].distance_matrix[i], S'[s].distance_matrix[i])
          /\ pc = "improve" =>
               /\ Len(S'[s].reachable[i]) = n_potential_cl'
               /\ Len(S'[s].distance_matrix[i]) = n_potential_cl'
               /\ \A k \in Range1(n_potential_cl') \ J :
                    /\ S'[s].distance_matrix[i][k]
                         = Distance(vehicle_locations[i],
                                    coordinates_potential_cl'[k])
                    /\ S'[s].reachable[i][k]
                         = (S'[s].distance_matrix[i][k] <= S[s].ranges[i])]_vars

\* After an extension a vehicle reaches the added candidate exactly at the
\* limit of its range while another vehicle does not reach it.
C14_Witness ==
    /\ pc = "outer" /\ n_potential_cl = 2 /\ solutions # <<>>
    /\ \E s \in samples_range : \E i, j \in I :
          /\ S[s].reachable[i][2]
          /\ S[s].distance_matrix[i][2] = S[s].ranges[i]
          /\ ~S[s].reachable[j][2]

\* What the calls made so far must have seen: call x saw x recorded solutions
\* in iteration x.
OncePerRecordedSolution ==
    /\ streamlit_callback =>
          observed = [x \in DOMAIN solutions |->
                         [recorded |-> x, iterations |-> x]]
    /\ ~streamlit_callback => observed = <<>>
    /\ pc = "returned" =>
          /\ result.iterations = Len(solutions)
          /\ streamlit_callback => Len(observed) = result.iterations
    /\ pc \in {"improve", "finalise", "returned"} =>
          /\ Len(solutions) = iterations
          /\ Len(objective_values) = iterations + 1

\* The recording step but for the call: the same whether or not a callback
\* was given; no other step calls.
SameStepsWithoutObserver ==
    /\ pc = "extract" =>
          /\ solutions' = Append(solutions, extract_solution(sol))
          /\ objective_values' = Append(objective_values, sol.objective_value)
          /\ pc' = "improve"
          /\ UNCHANGED <<configVars, alloc, locationVars, S, dvVars, modelVars,
                         m_timelimit, m_mip_start, m_incumbent, iterations,
                         sol, b_start_defined, start_arrays, result, error>>
    /\ pc # "extract" => UNCHANGED <<observed, streamlit_callback>>

\* C15: the callback, when given, is called once in every outer iteration,
\* after the solution and the objective of that iteration are recorded, the
\* last iteration included; a run that returns has made as many calls as it
\* returns iterations and recorded solutions.  The recording step is the same
\* with and without a callback, and no other step reads or calls it.
C15_ObserverOncePerIteration ==
    []OncePerRecordedSolution /\ [][SameStepsWithoutObserver]_vars

\* A run with a callback returned after two outer iterations.
C15_Witness ==
    /\ pc = "returned" /\ streamlit_callback
    /\ Len(observed) = 2 /\ result.iterations = 2

\* The draw of the allocation problem has its service level set and its model
\* is about to be solved.
C16_DrawPrepared == pc = "allocation_solve"

\* The allocations of the draw that respect the allocation and the queue
\* constraints, whatever the service level.
C16_Achievable ==
    AllocationFeasible(alloc.reachable, args.v_sol_built, Fraction(0, 1))

\* C16: in the allocation problem the service level put into the model of a
\* draw is the nominal service level when the attainable service level of the
\* draw is at least the nominal one, and the attainable service level
\* otherwise; it never exceeds the attainable one, and some allocation of the
\* draw achieves it.
C16_TargetClamped ==
    C16_DrawPrepared =>
        LET nominal == Fraction(service_level, 100)
            attainable == alloc.attainable_service_level
            target == alloc.service_level
        IN /\ attainable.num * nominal.den >= nominal.num * attainable.den
                 => target = nominal
           /\ attainable.num * nominal.den < nominal.num * attainable.den
                 => target = attainable
           /\ FractionGeq(attainable, target)
           /\ \E a \in C16_Achievable :
                 Cardinality(a) * target.den >= target.num * Len(alloc.reachable)

\* A draw whose attainable service level is below the nominal one, and one
\* where it is not, were both prepared in one call.
C16_Witness ==
    /\ C16_DrawPrepared
    /\ alloc.i = 1
    /\ alloc.service_levels[1] = Fraction(service_level, 100)
    /\ alloc.service_level # Fraction(service_level, 100)
    /\ alloc.service_level.num > 0

\* C17: in the allocation problem the service level recorded for a draw is
\* the service level the solved allocation achieves: the fraction of the
\* charging vehicles of the draw that it allocates to a location.
C17_RecordedIsAchieved ==
    (pc = "allocation" /\ alloc.i > 0) =>
        LET recorded == alloc.service_levels[alloc.i]
            achieved == Fraction(Cardinality(alloc.sol.u), Len(alloc.reachable))
        IN recorded.num * achieved.den = achieved.num * recorded.den

\* C18: every solve, the initial one as well as those of the improvement
\* loop, is issued with the time limit of the caller set on the model.
C18_EverySolveTimeLimited ==
    pc \in {"initial_solve", "outer", "inner"} => m_timelimit

\* The built locations with an allocated vehicle in the last recorded
\* solution: those find_improved_locations proposes a position for.
C19_Improvable ==
    LET xs == solutions[Len(solutions)]
    IN location_indices(built_indices(xs.b_sol), xs.u_sol)

\* C19: runs are repeatable: with the same inputs, seeds and answers of the
\* oracle, hence in the same state before the improvement step, and with the
\* same proposed positions, filter_locations accepts and rejects the same
\* positions: its draws leave one outcome only.
C19_Repeatable ==
    pc = "improve" =>
        \A improved \in [DOMAIN C19_Improvable -> Pos] :
            \A m1, m2 \in build_masks(improved, coordinates_potential_cl) :
                m1 = m2

\* The constraints of the model named fixed_station_number.
C20_FixedCountConstraints ==
    {p \in DOMAIN m_cts : m_cts[p].kind = "fixed_station_number"}

\* C20: with a fixed station number, the model holds one fixed-number
\* constraint, whose sum has the variable v[k] of every candidate, old and
\* new, exactly once; so every assignment of v and w the model admits, every
\* solved assignment and every recorded solution builds exactly
\* fixed_station_number locations over the whole candidate set.
C20_FixedCountJoint ==
    (fixed_station_number # None /\ m_cts # <<>>) =>
        /\ Cardinality(C20_FixedCountConstraints) = 1
        /\ \A p \in C20_FixedCountConstraints :
              /\ Len(m_cts[p].terms) = n_potential_cl
              /\ \A k \in J :
                    Cardinality({q \in DOMAIN m_cts[p].terms :
                                    m_cts[p].terms[q] = <<0, v[k]>>}) = 1
        /\ \A vw \in FeasibleVW(m_cts, n_potential_cl, service_level,
                                fixed_station_number) :
              SumSeq(vw.v) = fixed_station_number
        /\ sol # Unbound => SumSeq(sol.v) = fixed_station_number
        /\ \A x \in DOMAIN solutions :
              SumSeq(solutions[x].b_sol) = fixed_station_number

\* With a fixed station number, a solution was recorded and the model was
\* extended by a new candidate; it admits building the new candidate in
\* place of the old one.
C20_Witness ==
    /\ fixed_station_number # None
    /\ pc = "outer"
    /\ Len(solutions) = 1
    /\ SumSeq(solutions[1].b_sol) = fixed_station_number
    /\ n_potential_cl = 2
    /\ \E vw \in FeasibleVW(m_cts, n_potential_cl, service_level,
                            fixed_station_number) : vw.v = <<0, 1>>

\* In the built model, a cell of u holds a variable exactly where the sample's
\* reachability matrix holds, and the MIP start gives values to such cells
\* only.
VariablesWhereReachable ==
    m_cts # <<>> =>
        /\ \A s \in samples_range : \A i \in I :
              /\ Len(u[s][i]) = n_potential_cl
              /\ \A k \in J : u[s][i][k] = S[s].reachable[i][k]
        /\ m_mip_start # Unbound =>
              \A s \in samples_range : \A c \in m_mip_start.u[s] :
                  S[s].reachable[c[1]][c[2]]

\* No step turns the constant 0 of a cell into a variable, or a variable into
\* the constant.
CellsKeepTheirKind ==
    \A s \in DOMAIN u : \A i \in I : \A k \in DOMAIN u[s][i] :
        /\ s \in DOMAIN u' /\ k \in DOMAIN u'[s][i]
        /\ u'[s][i][k] = u[s][i][k]

\* C21: the allocation cell (s, i, k) holds a decision variable if and only
\* if reachable[i, k] holds in sample s; an unreachable cell is the constant 0
\* and never becomes a variable; no MIP start gives a value to an unreachable
\* cell.
C21_Sparsity == []VariablesWhereReachable /\ [][CellsKeepTheirKind]_vars

\* A MIP start was pushed for a model that has an unreachable cell, and a
\* vehicle it moves to a new location cannot reach it: the start holds fewer
\* allocations than the start arrays.
C21_Witness ==
    /\ m_mip_start # Unbound
    /\ \E s \in samples_range : \E i \in I : \E k \in J : ~u[s][i][k]
    /\ \E s \in samples_range : m_mip_start.u[s] # start_arrays.u_start[s]

\* The improvement step has extended the model and built a warm start.
Extended == pc = "improve" /\ n_potential_cl' > n_potential_cl

\* The locations of the last recorded solution that the extension replaces:
\* built, with an allocated vehicle, and zeroed in the start arrays; the
\* p-th of them is replaced by the p-th new candidate.
Replaced ==
    LET xs == solutions[Len(solutions)]
    IN SelectSeq([j \in Range1(n_potential_cl) |-> j],
                 LAMBDA j : /\ xs.b_sol[j] = 1
                            /\ HasAllocation(xs.u_sol, j)
                            /\ start_arrays'.b_start[j] = 0)

\* The cell an allocation of the last recorded solution is inherited by.
Inherited(c) ==
    IF IndexOf(Replaced, c[2]) # 0
    THEN <<c[1], n_potential_cl + IndexOf(Replaced, c[2])>> ELSE c

\* C22: in the warm start built for the enlarged model, every vehicle the
\* last solution allocated in sample s to a replaced location is allocated to
\* the new location replacing it and no longer to the old one, and every other
\* allocation is carried over unchanged; so the warm start allocates in every
\* sample as many vehicles as the last solution.
C22_AllocationInherited ==
    [][Extended =>
          LET xs == solutions[Len(solutions)]
          IN \A s \in DOMAIN xs.u_sol :
                /\ m_mip_start'.u[s] = {Inherited(c) : c \in xs.u_sol[s]}
                /\ Cardinality(m_mip_start'.u[s]) = Cardinality(xs.u_sol[s])]_vars

\* C23: in the start arrays for the enlarged model, each new location is
\* built with the count the last solution gives the old location it
\* replaces; each replaced old location and each built but empty location has
\* built = 0 and count = 0; every other candidate, a built location whose
\* position the filter did not keep among them, has the built and count of
\* the last solution; no candidate is removed.
C23_StartArraysBuiltCount ==
    pc = "constructed_mip_start" =>
        LET xs == solutions[Len(solutions)]
            zeroed == {args.location_indices[p] : p \in DOMAIN args.location_indices}
                      \cup {args.empty_indices[p] : p \in DOMAIN args.empty_indices}
        IN /\ Len(start_arrays.b_start) = n_potential_cl + args.v
           /\ Len(start_arrays.n_start) = n_potential_cl + args.v
           /\ \A p \in DOMAIN args.K :
                 /\ start_arrays.b_start[args.K[p]] = 1
                 /\ start_arrays.n_start[args.K[p]]
                       = xs.n_sol[args.location_indices[p]]
           /\ \A j \in Range1(n_potential_cl) :
                 IF j \in zeroed
                 THEN start_arrays.b_start[j] = 0 /\ start_arrays.n_start[j] = 0
                 ELSE /\ start_arrays.b_start[j] = xs.b_sol[j]
                      /\ start_arrays.n_start[j] = xs.n_sol[j]

\* The start arrays were constructed from a solution with a replaced
\* location, a built location with allocations whose position the filter
\* dropped, and a built but empty location.
C23_Witness ==
    /\ pc = "constructed_mip_start"
    /\ args.location_indices = <<1>>
    /\ args.empty_indices = <<3>>
    /\ solutions[1].b_sol = <<1, 1, 1>>
    /\ start_arrays.b_start = <<0, 1, 0, 1>>

\* The strictly increasing maps of 1 .. n into a set of positions.
Increasing(n, positions) ==
    {f \in [Range1(n) -> positions] : \A p, q \in Range1(n) : p < q => f[p] < f[q]}

\* C24: whatever the draws of filter_locations, a proposed position is kept
\* when its minimum distance to the candidates is greater than min_distance,
\* and also when it is within min_distance but no candidate lies within the
\* counting radius (probability 1); the kept positions are returned each with
\* the old location index it was proposed for.
C24_UnconditionalAcceptance ==
    pc = "improve" =>
        LET xs == solutions[Len(solutions)]
            old == location_indices(built_indices(xs.b_sol), xs.u_sol)
        IN \A improved \in [DOMAIN old -> Pos] :
           \A mask \in build_masks(improved, coordinates_potential_cl) :
              LET kept == {p \in DOMAIN old : mask[p]}
                  locations == Masked(improved, mask)
                  indices == Masked(old, mask)
              IN /\ \A p \in DOMAIN old :
                       ( (\A k \in J : Distance(improved[p], coordinates_potential_cl[k])
                                           > min_distance)
                         \/ (\A k \in J : Distance(improved[p], coordinates_potential_cl[k])
                                              >= counting_radius) )
                       => p \in kept
                 /\ Len(locations) = Cardinality(kept)
                 /\ Len(indices) = Cardinality(kept)
                 /\ \E f \in Increasing(Cardinality(kept), kept) :
                       \A q \in Range1(Cardinality(kept)) :
                           /\ locations[q] = improved[f[q]]
                           /\ indices[q] = old[f[q]]

\* The filter kept a position that is within min_distance of candidate 1 with
\* no candidate within the counting radius, and it became candidate 2.
C24_Witness ==
    /\ n_potential_cl = 2
    /\ Len(solutions) = 1
    /\ Distance(coordinates_potential_cl[2], coordinates_potential_cl[1])
          <= min_distance
    /\ Distance(coordinates_potential_cl[2], coordinates_potential_cl[1])
          >= counting_radius
    /\ start_arrays # Unbound /\ start_arrays.b_start = <<0, 1>>

\* Whether a sum has exactly the terms of a set, each once.
EachOnce(terms, set) ==
    /\ Len(terms) = Cardinality(set)
    /\ \A x \in set : \E p \in DOMAIN terms : terms[p] = x

\* C25: in the built model, after the initial build and after every
\* extension, the minimised objective and the total_cost KPI are the same
\* expression; it has the build term of every candidate once, the maintenance
\* term of every candidate once, the drive and charge term of every reachable
\* cell (sample, vehicle, candidate) once and the fixed charge term of every
\* sample once.
C25_ObjectiveIsKpi ==
    m_cts # <<>> =>
        /\ m_objective = kpi_total
        /\ m_objective = [build_cost |-> build_cost,
                          maintenance_cost |-> maintenance_cost,
                          drive_charge_cost |-> drive_charge_cost,
                          fixed_charge_cost |-> fixed_charge_cost]
        /\ EachOnce(m_objective.build_cost, {v[k] : k \in J})
        /\ EachOnce(m_objective.maintenance_cost, {w[k] : k \in J})
        /\ EachOnce(m_objective.drive_charge_cost,
                    {c \in samples_range \X I \X J :
                        S[c[1]].reachable[c[2]][c[3]]})
        /\ EachOnce(m_objective.fixed_charge_cost, samples_range)
        /\ Cardinality({v[k] : k \in J}) = n_potential_cl
        /\ Cardinality({w[k] : k \in J}) = n_potential_cl

\* The model was extended by a candidate that some vehicle reaches, and has
\* its new objective.
C25_Witness ==
    /\ pc = "outer"
    /\ n_potential_cl = 2
    /\ Len(solutions) = 1
    /\ \E s \in samples_range : \E i \in I : S[s].reachable[i][2]
    /\ n_samples = 2

\* C26: add_samples called while no initial candidate location has been
\* added raises and adds no sample: no step taken without candidate location
\* changes the samples, and whenever a sample exists a candidate location
\* was added before.
C26_NoSampleWithoutLocations ==
    [][coordinates_potential_cl = <<>> => S' = S /\ u' = u]_vars

\* C27: the warm start pushed after an extension is a feasible assignment of
\* the enlarged model: built <= count <= capacity * built for every candidate,
\* at most one allocation per vehicle, the queue cap per sample and location,
\* the service level of every sample over the whole candidate set, and the
\* fixed number of built locations when one is required.
C27_WarmStartFeasible ==
    (b_start_defined /\ m_mip_start # Unbound) =>
        /\ \A k \in J :
              /\ m_mip_start.v[k] <= m_mip_start.w[k]
              /\ m_mip_start.w[k] <= station_ub * m_mip_start.v[k]
        /\ \A s \in samples_range :
              /\ \A i \in I :
                    Cardinality({c \in m_mip_start.u[s] : c[1] = i}) <= 1
              /\ \A k \in J :
                    Cardinality({c \in m_mip_start.u[s] : c[2] = k})
                        <= queue_size * m_mip_start.w[k]
              /\ 100 * Cardinality(m_mip_start.u[s]) >= service_level * n_vehicles
        /\ fixed_station_number # None =>
              SumSeq(m_mip_start.v) = fixed_station_number

\* How often a value occurs in a sequence.
Occurrences(seq, x) == Cardinality({p \in DOMAIN seq : seq[p] = x})

\* C28: whenever solve returns, the charger counts it returns are, as a
\* multiset, the counts of the locations that are built and have an allocated
\* vehicle in the last recorded solution.
C28_ReturnsLastCounts ==
    pc = "returned" =>
        LET xs == solutions[Len(solutions)]
            served == location_indices(built_indices(xs.b_sol), xs.u_sol)
            counts == [p \in DOMAIN served |-> xs.n_sol[served[p]]]
        IN \A c \in 0 .. WDomainMax :
              Occurrences(result.v_sol_built, c) = Occurrences(counts, c)

\* A solve call is about to be issued.
AtSolveCall == pc \in {"initial_solve", "outer", "inner"}

C30_SampleColumnsFollowCandidates ==
    pc = "setup" =>
        \A s \in samples_range : \A i \in I :
            /\ Len(S[s].distance_matrix[i]) = n_potential_cl
            /\ Len(S[s].reachable[i]) = n_potential_cl

====
